---- MODULE Spec2Model ----
(***************************************************************************)
(* Model of the poem-clock server (src/server.js, the SQLite-backed        *)
(* service that starts at line 105): the two cache slots, the poems table, *)
(* the 1 Hz scheduler callback, the prefetch routine and the generation    *)
(* calls that are in flight between a fetch() and its resolution.          *)
(*                                                                         *)
(* Time is the wall clock in epoch milliseconds.  The Date methods the     *)
(* code uses read and write local time, which the image fixes to the zone  *)
(* Australia/Sydney (src/Dockerfile:5): eleven hours ahead of UTC while    *)
(* daylight saving lasts, ten after it ends.                               *)
(* JavaScript runs each callback to completion, so every action below is   *)
(* one callback (or one continuation after an await) executed atomically.  *)
(***************************************************************************)
EXTENDS Integers, Sequences, FiniteSets, Bags, TLC

VARIABLES
    now,                  \* Date.now(): the wall clock, epoch milliseconds
    started,              \* startPoemGenerator() has run (interval registered)
    currentPoem,          \* let currentPoem  (server.js:162)
    nextPoem,             \* let nextPoem     (server.js:169)
    calls,                \* bag of generatePoemFromAPI calls awaiting fetch()
    fetches,              \* fetch() calls issued so far
    timeouts,             \* due times of the pending setTimeout(prefetch, 2000)
    db,                   \* rows of table poems, in insertion order
    seq,                  \* AUTOINCREMENT counter of poems.id
    storeOk,              \* FALSE once the database rejects statements
    ticked,               \* the interval timer has fired at this instant
    step                  \* what the last callback did (observation only)

vars == <<now, started, ticked, currentPoem, nextPoem, calls, fetches, timeouts,
          db, seq, storeOk, step>>

----------------------------------------------------------------------------
(* Program constants *)

TICK_MS == 1000
POEM_RETENTION_HOURS == 24
PREFETCH_SECOND == 45
STARTUP_PREFETCH_DELAY == 2000
MS_PER_SECOND == 1000
MS_PER_MINUTE == 60000
MS_PER_HOUR == 3600000
OPENROUTER_MODEL == "anthropic/claude-3.5-sonnet"

(* Bounds of the model *)

MaxFetches == 3      \* generation calls issued by one run
MaxSteps == 6        \* clock advances after the start instant

----------------------------------------------------------------------------
(* Date arithmetic *)

\* The zone of the process (ENV TZ=Australia/Sydney): its two offsets, and
\* the instant daylight saving ends, 16:00 UTC, when local clocks go back
\* from 03:00 to 02:00.  The modelled days hold this one transition.
DaylightOffset == 11 * MS_PER_HOUR
StandardOffset == 10 * MS_PER_HOUR
DstEnd == 64 * MS_PER_HOUR

\* The offset of local time: at a UTC instant, or at a local time value, where
\* a local time that occurs twice (or not at all) is read with the offset in
\* force before the transition.
LocalTZA(t, isUTC) ==
    IF isUTC
    THEN IF t < DstEnd THEN DaylightOffset ELSE StandardOffset
    ELSE IF t - DaylightOffset < DstEnd THEN DaylightOffset ELSE StandardOffset

LocalTime(t) == t + LocalTZA(t, TRUE)
UTC(t) == t - LocalTZA(t, FALSE)

getMinutes(t) == (LocalTime(t) \div MS_PER_MINUTE) % 60
getSeconds(t) == (LocalTime(t) \div MS_PER_SECOND) % 60
getHours(t) == (LocalTime(t) \div MS_PER_HOUR) % 24
MinuteStart(t) == t - (t % MS_PER_MINUTE)

Digit == <<"0", "1", "2", "3", "4", "5", "6", "7", "8", "9">>
TwoDigit(n) == <<Digit[(n \div 10) + 1], Digit[(n % 10) + 1]>>

\* toLocaleTimeString('en-US', {hour:'2-digit', minute:'2-digit', hour12:true}):
\* "hh:mm AM", as a sequence of characters and the day-period token.
formatTime(date) ==
    LET h == getHours(date)
        h12 == IF h % 12 = 0 THEN 12 ELSE h % 12
    IN  TwoDigit(h12) \o <<":">> \o TwoDigit(getMinutes(date))
          \o <<" ", IF h < 12 THEN "AM" ELSE "PM">>

----------------------------------------------------------------------------
(* The external API and generatePoemFromAPI *)

EmptyString == <<>>

\* Message contents the API can return (strings as character sequences).
Contents == { <<>>, <<" ">>, <<"\t", "<NBSP>", "a", "\r", "\n">> }

\* What the fetch of one call resolves to.
Responses ==
    { [kind |-> "error"], [kind |-> "non2xx"], [kind |-> "missing"] }
      \cup { [kind |-> "content", content |-> c] : c \in Contents }

\* The white space and line terminators String.prototype.trim strips; the
\* characters a TLA+ string cannot spell are named: <VT> U+000B, <NBSP>
\* U+00A0, <ZWNBSP> U+FEFF, <USP> the other space separators, <LS> U+2028,
\* <PS> U+2029.
IsSpace(ch) ==
    ch \in {" ", "\t", "\n", "\r", "\f", "<VT>", "<NBSP>", "<ZWNBSP>", "<USP>", "<LS>", "<PS>"}

RECURSIVE trimStart(_)
trimStart(s) ==
    IF s # <<>> /\ IsSpace(Head(s)) THEN trimStart(Tail(s)) ELSE s

RECURSIVE trimEnd(_)
trimEnd(s) ==
    IF s # <<>> /\ IsSpace(s[Len(s)]) THEN trimEnd(SubSeq(s, 1, Len(s) - 1)) ELSE s

trim(s) == trimEnd(trimStart(s))

\* The fallback bug that returns a fixed text without the time.
FallbackPoem_NoLabel(timeString) ==
    <<"The clock does chime,\nMarking moments, keeping time.">>

\* The string returned by the catch block (server.js:248).
FallbackPoem(timeString) ==
    <<"At", " ">> \o timeString
      \o <<" ", "the clock does chime,\nMarking moments, keeping time.">>

\* data.choices?.[0]?.message?.content || ''
ContentOf(resp) == IF resp.kind = "content" THEN resp.content ELSE EmptyString

generatePoemFromAPI(timeString, resp) ==
    IF resp.kind \in {"error", "non2xx"} THEN FallbackPoem(timeString)
    ELSE IF ContentOf(resp) = EmptyString THEN FallbackPoem(timeString)
    ELSE trim(ContentOf(resp))

----------------------------------------------------------------------------
(* The store *)

\* A row of poems; created_at, which nothing reads, is left out.
Row(id, timestamp, timeString, poem) ==
    [id |-> id, timestamp |-> timestamp, time_string |-> timeString,
     poem |-> poem, model_used |-> OPENROUTER_MODEL]

\* The save bug that stores the time label in the poem column.
savePoemToDatabase_LabelAsPoem(rows, id, timeString, poem, timestamp, ok) ==
    IF ok THEN Append(rows, Row(id, timestamp, timeString, timeString))
    ELSE rows

\* insertPoemStmt.run inside the try/catch of savePoemToDatabase.
savePoemToDatabase(rows, id, timeString, poem, timestamp, ok) ==
    IF ok THEN Append(rows, Row(id, timestamp, timeString, poem))
    ELSE rows

\* The retention bug that also deletes the row exactly at the cutoff.
RECURSIVE DeleteOlder_Inclusive(_, _)
DeleteOlder_Inclusive(rows, cutoff) ==
    IF rows = <<>> THEN <<>>
    ELSE IF Head(rows).timestamp <= cutoff THEN DeleteOlder_Inclusive(Tail(rows), cutoff)
    ELSE <<Head(rows)>> \o DeleteOlder_Inclusive(Tail(rows), cutoff)

\* DELETE FROM poems WHERE timestamp < ?
RECURSIVE DeleteOlder(_, _)
DeleteOlder(rows, cutoff) ==
    IF rows = <<>> THEN <<>>
    ELSE IF Head(rows).timestamp < cutoff THEN DeleteOlder(Tail(rows), cutoff)
    ELSE <<Head(rows)>> \o DeleteOlder(Tail(rows), cutoff)

cutoffTimestamp(at, hours) == at - hours * 60 * 60 * 1000

\* cleanupOldPoemsStmt.run(cutoffTimestamp) inside the try/catch.
cleanupOldPoems(rows, at, hours, ok) ==
    IF ok THEN DeleteOlder(rows, cutoffTimestamp(at, hours)) ELSE rows

InsertStmt(timeString, poem, timestamp) ==
    [stmt |-> "insert", timestamp |-> timestamp, time_string |-> timeString,
     poem |-> poem]

CleanupStmt(at, hours) ==
    [stmt |-> "cleanup", cutoff |-> cutoffTimestamp(at, hours)]

----------------------------------------------------------------------------
(* The cache slots *)

EmptyCurrent ==
    [timeString |-> EmptyString, poem |-> EmptyString, timestamp |-> 0, minute |-> -1]

\* The reset bug that leaves a minute of the hour in the cleared slot.
EmptyNext_KeepsMinute == [poem |-> EmptyString, minute |-> 0]

\* The empty prefetch slot: its initial value and the reset of server.js:358.
EmptyNext == [poem |-> EmptyString, minute |-> -1]

\* The caching bug that records the second instead of the minute.
cached_WrongMinute(date, poem) ==
    [timeString |-> formatTime(date), poem |-> poem,
     timestamp |-> date, minute |-> getSeconds(date)]

\* The object generateAndCachePoem assigns to currentPoem (server.js:286).
cached(date, poem) ==
    [timeString |-> formatTime(date), poem |-> poem,
     timestamp |-> date, minute |-> getMinutes(date)]

\* The object prefetchNextMinute assigns to nextPoem (server.js:315).
prefetched(nextMinute, poem) ==
    [poem |-> poem, minute |-> getMinutes(nextMinute),
     timeString |-> formatTime(nextMinute), timestamp |-> nextMinute]

\* The promotion bug that stamps the poem with the minute, not the timestamp.
promoted_MinuteAsTimestamp(np, currentMinute) ==
    [timeString |-> np.timeString, poem |-> np.poem,
     timestamp |-> currentMinute, minute |-> currentMinute]

\* The object the boundary assigns to currentPoem on promotion (server.js:347).
promoted(np, currentMinute) ==
    [timeString |-> np.timeString, poem |-> np.poem,
     timestamp |-> np.timestamp, minute |-> currentMinute]

\* nextMinute of prefetchNextMinute: setMinutes(+1), setSeconds(0) and
\* setMilliseconds(0) set fields of the local time, which is then read back
\* as an instant.
nextMinuteOf(t) == UTC(MinuteStart(LocalTime(t)) + MS_PER_MINUTE)

\* The prefetch bug that compares the slot with the current minute, not the next.
shouldPrefetch_CurrentMinute(np, nextMinuteValue) == np.minute # nextMinuteValue - 1

\* if (nextPoem.minute !== nextMinuteValue)
shouldPrefetch(np, nextMinuteValue) == np.minute # nextMinuteValue

\* if (currentSeconds === 0 && currentMinute !== currentPoem.minute)
isBoundary(currentSeconds, currentMinute, cp) ==
    currentSeconds = 0 /\ currentMinute # cp.minute

\* if (nextPoem.minute === currentMinute && nextPoem.poem)
hasPrefetched(np, currentMinute) ==
    np.minute = currentMinute /\ np.poem # EmptyString

\* The cleanup bug that runs at every boundary.
isCleanupDue_EveryMinute(currentMinute) == currentMinute >= 0

\* if (currentMinute === 0) after the promotion/fallback choice
isCleanupDue(currentMinute) == currentMinute = 0

\* if (!currentPoem.poem) return res.status(503)
notReady(cp) == cp.poem = EmptyString

----------------------------------------------------------------------------
(* Initial state: the module has been loaded, startPoemGenerator not yet run *)

TopOfHour == 48 * MS_PER_HOUR    \* 00:00 UTC, 11:00:00.000 AM local time

\* The instant at which the server starts listening: 10:59:43.000, two
\* seconds before the prefetch second of the last minute of the hour.
StartInstant == TopOfHour - MS_PER_MINUTE + PREFETCH_SECOND * MS_PER_SECOND - STARTUP_PREFETCH_DELAY

\* Rows left in the table by earlier runs, around the retention cutoff of
\* the top of the hour: a millisecond before it, at it and a second after it.
OldRow(id, timestamp) ==
    Row(id, timestamp, formatTime(timestamp), <<"a">>)

InitialRows ==
    << OldRow(1, TopOfHour - POEM_RETENTION_HOURS * MS_PER_HOUR - 1),
       OldRow(2, TopOfHour - POEM_RETENTION_HOURS * MS_PER_HOUR),
       OldRow(3, TopOfHour - POEM_RETENTION_HOURS * MS_PER_HOUR + TICK_MS) >>

\* The record of one callback: which one ran, the statements it sent to the
\* database, the number of fetches it issued, the call it resumed (if any)
\* and what the fetch of that call resolved to; for a request handler, the
\* HTTP response it sent.
NoCall == [kind |-> "none", date |-> 0]
NoResponse == [kind |-> "none"]
NoReply == [status |-> 0]
Step(op, stmts, fetched, call, resp) ==
    [op |-> op, stmts |-> stmts, fetched |-> fetched, call |-> call, resp |-> resp,
     reply |-> NoReply]
Idle == Step("idle", <<>>, 0, NoCall, NoResponse)

InitAt(t) ==
    /\ now = t
    /\ started = FALSE
    /\ currentPoem = EmptyCurrent
    /\ nextPoem = EmptyNext
    /\ calls = EmptyBag
    /\ fetches = 0
    /\ ticked = FALSE
    /\ timeouts = {}
    /\ db = InitialRows
    /\ seq = Len(InitialRows)
    /\ storeOk = TRUE
    /\ step = Idle

\* The same second of a minute that does not end the hour: 11:29:43.000.
HalfPastStartInstant == StartInstant + 30 * MS_PER_MINUTE

\* And of the last minute before the clocks go back, 02:59:43.000 of the
\* night daylight saving ends.
DstStartInstant == DstEnd - MS_PER_MINUTE + PREFETCH_SECOND * MS_PER_SECOND - STARTUP_PREFETCH_DELAY

StartInstants == {StartInstant, HalfPastStartInstant, DstStartInstant}

Init == \E t \in StartInstants : InitAt(t)

----------------------------------------------------------------------------
(* The generation calls *)

Call(kind, date) == [kind |-> kind, date |-> date]

\* generateAndCachePoem(date) up to its await: the fetch is issued.
generateAndCachePoem(kind, date) ==
    /\ fetches < MaxFetches
    /\ fetches' = fetches + 1
    /\ calls' = calls (+) SetToBag({Call(kind, date)})

\* prefetchNextMinute() up to its await; op names the caller.
prefetchNextMinute(op) ==
    LET nextMinute == nextMinuteOf(now)
        nextMinuteValue == getMinutes(nextMinute)
    IN  IF shouldPrefetch(nextPoem, nextMinuteValue)
        THEN /\ fetches < MaxFetches
             /\ fetches' = fetches + 1
             /\ calls' = calls (+) SetToBag({Call("prefetch", nextMinute)})
             /\ step' = Step(op, <<>>, 1, NoCall, NoResponse)
        ELSE /\ UNCHANGED <<calls, fetches>>
             /\ step' = Step(op, <<>>, 0, NoCall, NoResponse)

\* startPoemGenerator(): setInterval is registered, the initial generation starts.
startPoemGenerator ==
    /\ ~started
    /\ started' = TRUE
    /\ generateAndCachePoem("startup", now)
    /\ step' = Step("start", <<>>, 1, NoCall, NoResponse)
    /\ UNCHANGED <<now, ticked, currentPoem, nextPoem, timeouts, db, seq, storeOk>>

----------------------------------------------------------------------------
(* The setInterval callback.  The timer fires at most once at an instant. *)

\* if (currentSeconds === 45) prefetchNextMinute();
TickPrefetch ==
    /\ started /\ ~ticked
    /\ ticked' = TRUE
    /\ getSeconds(now) = PREFETCH_SECOND
    /\ prefetchNextMinute("tick-prefetch")
    /\ UNCHANGED <<now, started, currentPoem, nextPoem, timeouts, db, seq, storeOk>>

\* The statements of a boundary: the insert, and the cleanup at minute 0.
BoundaryStmts(ins, currentMinute, at) ==
    IF isCleanupDue(currentMinute)
    THEN <<ins, CleanupStmt(at, POEM_RETENTION_HOURS)>>
    ELSE <<ins>>

\* The table after them.
BoundaryRows(saved, currentMinute, at, ok) ==
    IF isCleanupDue(currentMinute)
    THEN cleanupOldPoems(saved, at, POEM_RETENTION_HOURS, ok)
    ELSE saved

\* The boundary with a prefetched poem: promote, save, clear, clean up.
TickPromote ==
    LET currentMinute == getMinutes(now)
        saved == savePoemToDatabase(db, seq + 1, nextPoem.timeString, nextPoem.poem,
                                    nextPoem.timestamp, storeOk)
        ins == InsertStmt(nextPoem.timeString, nextPoem.poem, nextPoem.timestamp)
    IN  /\ started /\ ~ticked
        /\ ticked' = TRUE
        /\ getSeconds(now) # PREFETCH_SECOND
        /\ isBoundary(getSeconds(now), currentMinute, currentPoem)
        /\ hasPrefetched(nextPoem, currentMinute)
        /\ currentPoem' = promoted(nextPoem, currentMinute)
        /\ seq' = IF storeOk THEN seq + 1 ELSE seq
        /\ nextPoem' = EmptyNext
        /\ db' = BoundaryRows(saved, currentMinute, now, storeOk)
        /\ step' = Step("tick-promote", BoundaryStmts(ins, currentMinute, now), 0, NoCall,
                        NoResponse)
        /\ UNCHANGED <<now, started, calls, fetches, timeouts, storeOk>>

\* The boundary without one: await generateAndCachePoem(now).
TickFallback ==
    LET currentMinute == getMinutes(now)
    IN  /\ started /\ ~ticked
        /\ ticked' = TRUE
        /\ getSeconds(now) # PREFETCH_SECOND
        /\ isBoundary(getSeconds(now), currentMinute, currentPoem)
        /\ ~hasPrefetched(nextPoem, currentMinute)
        /\ generateAndCachePoem("fallback", now)
        /\ step' = Step("tick-fallback", <<>>, 1, NoCall, NoResponse)
        /\ UNCHANGED <<now, started, currentPoem, nextPoem, timeouts, db, seq, storeOk>>

\* Any other tick does nothing.
TickIdle ==
    /\ started /\ ~ticked
    /\ ticked' = TRUE
    /\ getSeconds(now) # PREFETCH_SECOND
    /\ ~isBoundary(getSeconds(now), getMinutes(now), currentPoem)
    /\ step' = Idle
    /\ UNCHANGED <<now, started, currentPoem, nextPoem, calls, fetches, timeouts,
                   db, seq, storeOk>>

----------------------------------------------------------------------------
(* Resolution of a generation call: the code after the await *)

\* generateAndCachePoem after its await, then the caller's continuation:
\* the .then() of the startup call (which arms the prefetch timeout), or the
\* rest of the tick callback (the cleanup at minute 0).
ResolveGenerate(c, resp) ==
    LET timeString == formatTime(c.date)
        poem == generatePoemFromAPI(timeString, resp)
        saved == savePoemToDatabase(db, seq + 1, timeString, poem, c.date, storeOk)
        ins == InsertStmt(timeString, poem, c.date)
    IN  /\ c.kind \in {"startup", "fallback"}
        /\ calls' = calls (-) SetToBag({c})
        /\ currentPoem' = cached(c.date, poem)
        /\ seq' = IF storeOk THEN seq + 1 ELSE seq
        /\ IF c.kind = "startup"
           THEN /\ db' = saved
                /\ timeouts' = timeouts \cup {now + STARTUP_PREFETCH_DELAY}
                /\ step' = Step("resolve-startup", <<ins>>, 0, c, resp)
           ELSE /\ db' = BoundaryRows(saved, getMinutes(c.date), now, storeOk)
                /\ timeouts' = timeouts
                /\ step' = Step("resolve-fallback",
                                BoundaryStmts(ins, getMinutes(c.date), now), 0, c, resp)
        /\ UNCHANGED <<now, started, ticked, nextPoem, fetches, storeOk>>

\* The prefetch bug that also installs the prefetched poem as the current one.
ResolvePrefetch_AlsoCaches(c, resp) ==
    LET poem == generatePoemFromAPI(formatTime(c.date), resp)
    IN  /\ c.kind = "prefetch"
        /\ calls' = calls (-) SetToBag({c})
        /\ nextPoem' = prefetched(c.date, poem)
        /\ currentPoem' = cached(c.date, poem)
        /\ step' = Step("resolve-prefetch", <<>>, 0, c, resp)
        /\ UNCHANGED <<now, started, ticked, fetches, timeouts, db, seq, storeOk>>

\* prefetchNextMinute after its await.
ResolvePrefetch(c, resp) ==
    LET poem == generatePoemFromAPI(formatTime(c.date), resp)
    IN  /\ c.kind = "prefetch"
        /\ calls' = calls (-) SetToBag({c})
        /\ nextPoem' = prefetched(c.date, poem)
        /\ step' = Step("resolve-prefetch", <<>>, 0, c, resp)
        /\ UNCHANGED <<now, started, ticked, currentPoem, fetches, timeouts, db, seq,
                       storeOk>>

\* The setTimeout callback registered after the initial generation.
StartupPrefetch ==
    \E due \in timeouts :
        /\ now >= due
        /\ timeouts' = timeouts \ {due}
        /\ prefetchNextMinute("timeout-prefetch")
        /\ UNCHANGED <<now, started, ticked, currentPoem, nextPoem, db, seq, storeOk>>

----------------------------------------------------------------------------
(* The query surface *)

\* The handler bug that answers 200 whatever the slot holds.
currentPoemReply_NeverNotReady(cp) ==
    [status |-> 200,
     body |-> [poem |-> cp.poem, timeString |-> cp.timeString,
               timestamp |-> cp.timestamp]]

\* The response of GET /api/current-poem for a given currentPoem.
currentPoemReply(cp) ==
    IF notReady(cp)
    THEN [status |-> 503,
          body |-> [error |-> "Poem not ready yet",
                    message |-> "Server is initializing, please try again in a moment"]]
    ELSE [status |-> 200,
          body |-> [poem |-> cp.poem, timeString |-> cp.timeString,
                    timestamp |-> cp.timestamp]]

\* app.get('/api/current-poem', ...): a request handled while the server listens.
getCurrentPoem ==
    /\ started
    /\ step' = [Idle EXCEPT !.op = "get-current-poem",
                            !.reply = currentPoemReply(currentPoem)]
    /\ UNCHANGED <<now, started, ticked, currentPoem, nextPoem, calls, fetches,
                   timeouts, db, seq, storeOk>>

----------------------------------------------------------------------------
(* The environment *)

\* An instant late in second 58, from which the startup timeout of 2000 ms
\* falls due inside second 0 of the next minute.
LateAnswerOffset == 58 * MS_PER_SECOND + TICK_MS \div 2

\* The instants of each minute at which the clock is observed: the first and
\* the last millisecond of second 0 and of second 45, each pair less than
\* one timer period apart, and the late instant of second 58.
NextInstant(t) ==
    LET base == MinuteStart(t)
        off == t - base
        prefetchAt == PREFETCH_SECOND * MS_PER_SECOND
    IN  IF off < TICK_MS - 1 THEN base + TICK_MS - 1
        ELSE IF off < prefetchAt THEN base + prefetchAt
        ELSE IF off < prefetchAt + TICK_MS - 1 THEN base + prefetchAt + TICK_MS - 1
        ELSE IF off < LateAnswerOffset THEN base + LateAnswerOffset
        ELSE base + MS_PER_MINUTE

RECURSIVE InstantAfter(_, _)
InstantAfter(t, n) == IF n = 0 THEN t ELSE InstantAfter(NextInstant(t), n - 1)

Earliest(dues) == CHOOSE d \in dues : \A e \in dues : d <= e
Latest(instants) == CHOOSE d \in instants : \A e \in instants : d >= e

\* The last modelled instant of the run that is in progress at t.
Horizon(t) ==
    InstantAfter(Latest({ s \in StartInstants : s <= t }), MaxSteps)

\* The next instant at which something can run: the next observed instant
\* of the clock, or the due time of a pending timeout before it.
NextEvent ==
    LET sooner == { d \in timeouts : d < NextInstant(now) }
    IN  IF sooner = {} THEN NextInstant(now) ELSE Earliest(sooner)

\* Time passes while the process runs, up to the instant last.  A timeout
\* runs when it is due: the clock does not pass a due timeout.  Whether the
\* interval timer has fired at the instant left behind is not asked: its
\* firings drift, and a clock second can pass without one.
AdvanceTo(last) ==
    /\ started
    /\ \A due \in timeouts : now < due
    /\ now < last
    /\ now' = IF NextEvent <= last THEN NextEvent ELSE last
    /\ ticked' = FALSE
    /\ step' = Idle
    /\ UNCHANGED <<started, currentPoem, nextPoem, calls, fetches, timeouts, db, seq,
                   storeOk>>

Advance == AdvanceTo(Horizon(now))

\* The database starts rejecting statements (locked file, full disk).
StoreFault ==
    /\ started /\ storeOk
    /\ storeOk' = FALSE
    /\ step' = Idle
    /\ UNCHANGED <<now, started, ticked, currentPoem, nextPoem, calls, fetches,
                   timeouts, db, seq>>

Next ==
    \/ startPoemGenerator
    \/ TickPrefetch
    \/ TickPromote
    \/ TickFallback
    \/ TickIdle
    \/ \E c \in BagToSet(calls) : \E resp \in Responses : ResolveGenerate(c, resp)
    \/ \E c \in BagToSet(calls) : \E resp \in Responses : ResolvePrefetch(c, resp)
    \/ StartupPrefetch
    \/ getCurrentPoem
    \/ Advance
    \/ StoreFault

Spec == Init /\ [][Next]_vars

----------------------------------------------------------------------------
(* The run in which the API never answers the on-demand generation of the
   top of the hour, under the scheduling the runtime provides: the interval
   timer keeps firing, about a second apart and at a drifting phase, so that
   it may have no firing in a given clock second. *)

\* The server starts listening at 10:59:46, just after the prefetch second,
\* or at 02:59:46 of the night daylight saving ends.
LiveStartInstant == TopOfHour - MS_PER_MINUTE + (PREFETCH_SECOND + 1) * MS_PER_SECOND
DstLiveStartInstant == DstEnd - MS_PER_MINUTE + (PREFETCH_SECOND + 1) * MS_PER_SECOND

\* The top of the hour of the run that is in progress at t.
StalledMinute(t) == IF t < DstLiveStartInstant THEN TopOfHour ELSE DstEnd

\* The on-demand generation calls made for the minute of the top of the hour.
IsStalled(c) == c.kind = "fallback" /\ MinuteStart(c.date) = StalledMinute(c.date)

\* The first instant of second 1 of the minute after it.
LiveHorizon(t) == StalledMinute(t) + MS_PER_MINUTE + TICK_MS

\* The interval callback, whichever branch it takes.
Tick == TickPrefetch \/ TickPromote \/ TickFallback \/ TickIdle

LiveAdvance == AdvanceTo(LiveHorizon(now))

\* The fetch of a stalled call never settles; any other may.
ResolveUnstalled ==
    \E c \in BagToSet(calls) : \E resp \in Responses :
        ~IsStalled(c) /\ ResolveGenerate(c, resp)

LiveInit == InitAt(LiveStartInstant) \/ InitAt(DstLiveStartInstant)

LiveNext ==
    \/ startPoemGenerator
    \/ TickPrefetch
    \/ TickPromote
    \/ TickFallback
    \/ TickIdle
    \/ ResolveUnstalled
    \/ \E c \in BagToSet(calls) : \E resp \in Responses : ResolvePrefetch(c, resp)
    \/ StartupPrefetch
    \/ getCurrentPoem
    \/ LiveAdvance
    \/ StoreFault

\* Time passes, the interval timer keeps firing, the timeout runs, and
\* every fetch but the stalled ones settles and has its continuation run.
Fairness ==
    /\ WF_vars(LiveAdvance)
    /\ WF_vars(Tick)
    /\ WF_vars(StartupPrefetch)
    /\ WF_vars(ResolveUnstalled)
    /\ WF_vars(\E c \in BagToSet(calls) : \E resp \in Responses :
                  ResolvePrefetch(c, resp))

LiveSpec == LiveInit /\ [][LiveNext]_vars /\ Fairness

----------------------------------------------------------------------------
(* Vocabulary of the properties *)

Rows(t) == { t[i] : i \in 1..Len(t) }

\* The interval timer fires in this step.
TickFires == ~ticked /\ ticked'

\* The rows this step added to the table (ids are never reused).
AddedRows == { r \in Rows(db') : r.id > seq }

\* The insert and cleanup statements in a callback's record.
Inserts(st) == { i \in 1..Len(st.stmts) : st.stmts[i].stmt = "insert" }
Cleanups(st) == { i \in 1..Len(st.stmts) : st.stmts[i].stmt = "cleanup" }

\* A row carries exactly this label, text and timestamp.
RowHolds(r, timeString, poem, timestamp) ==
    r.time_string = timeString /\ r.poem = poem /\ r.timestamp = timestamp

InFlight(kinds) == { c \in BagToSet(calls) : c.kind \in kinds }

----------------------------------------------------------------------------
(* C1 *)

\* The boundary tick that finds a valid prefetch for the new minute.
C1_Pre ==
    /\ TickFires
    /\ getSeconds(now) = 0
    /\ getMinutes(now) # currentPoem.minute
    /\ nextPoem.minute = getMinutes(now)
    /\ nextPoem.poem # EmptyString

C1_Post ==
    /\ currentPoem'.poem = nextPoem.poem
    /\ currentPoem'.timeString = nextPoem.timeString
    /\ currentPoem'.timestamp = nextPoem.timestamp
    /\ Cardinality(Inserts(step')) = 1
    /\ \A i \in Inserts(step') :
          RowHolds(step'.stmts[i], nextPoem.timeString, nextPoem.poem, nextPoem.timestamp)
    /\ IF storeOk
       THEN /\ Cardinality(AddedRows) = 1
            /\ \A r \in AddedRows :
                  RowHolds(r, nextPoem.timeString, nextPoem.poem, nextPoem.timestamp)
       ELSE AddedRows = {}
    /\ nextPoem'.minute = -1
    /\ nextPoem'.poem = EmptyString

\* C1: at a boundary tick (second 0, minute different from currentPoem.minute)
\* with nextPoem holding the new minute and a non-empty poem, currentPoem
\* takes nextPoem's poem, label and timestamp, exactly one insert with those
\* values is sent to the store (one row is added; none if the best-effort
\* write is rejected), and nextPoem is left with minute -1 and an empty poem.
C1_PromotionCopiesAndResets == [][C1_Pre => C1_Post]_vars

\* A promotion has just happened and its row is the newest of the table.
C1_Witness ==
    /\ step.op = "tick-promote"
    /\ storeOk
    /\ nextPoem.minute = -1
    /\ currentPoem.poem # EmptyString
    /\ currentPoem.minute = getMinutes(now)
    /\ \E r \in Rows(db) :
          /\ r.id = seq
          /\ RowHolds(r, currentPoem.timeString, currentPoem.poem, currentPoem.timestamp)

----------------------------------------------------------------------------
(* C2 *)

\* The boundary tick that finds no valid prefetch for the new minute.
C2_Pre ==
    /\ TickFires
    /\ getSeconds(now) = 0
    /\ getMinutes(now) # currentPoem.minute
    /\ ~(nextPoem.minute = getMinutes(now) /\ nextPoem.poem # EmptyString)

\* It starts one generation for the tick's instant and writes nothing yet.
C2_Started ==
    /\ \E c \in BagToSet(calls') :
          /\ calls' = calls (+) SetToBag({c})
          /\ c.kind = "fallback"
          /\ c.date = now
    /\ UNCHANGED <<currentPoem, nextPoem, db>>

\* The resolution of that generation.
C2_Resolved ==
    LET c == step'.call
        label == formatTime(MinuteStart(c.date))
    IN  /\ currentPoem'.minute = getMinutes(c.date)
        /\ currentPoem'.timeString = label
        /\ currentPoem'.timestamp = c.date
        /\ Cardinality(Inserts(step')) = 1
        /\ \A i \in Inserts(step') :
              RowHolds(step'.stmts[i], label, currentPoem'.poem, c.date)
        /\ IF storeOk
           THEN /\ Cardinality(AddedRows) = 1
                /\ \A r \in AddedRows : RowHolds(r, label, currentPoem'.poem, c.date)
           ELSE AddedRows = {}

\* C2: a boundary tick without a valid prefetch (nextPoem for another minute,
\* or empty) starts one generation for the new minute, and when that
\* generation resolves currentPoem is rewritten for that minute and exactly
\* one insert is sent to the store, its time_string the formatted time of
\* the new minute.
C2_FallbackRegeneratesAndAppends ==
    [][ /\ C2_Pre => C2_Started
        /\ step'.op = "resolve-fallback" => C2_Resolved ]_vars

\* A fallback generation for the minute that just began has resolved.
C2_Witness ==
    /\ step.op = "resolve-fallback"
    /\ storeOk
    /\ currentPoem.minute = getMinutes(now)
    /\ currentPoem.timeString = formatTime(now)
    /\ \E r \in Rows(db) : r.id = seq /\ r.time_string = formatTime(now)

----------------------------------------------------------------------------
(* C3 *)

\* C3: at most one row is appended for a minute, also when the timer fires
\* twice within second 0 of that minute (no two rows appended by this run
\* have timestamps in the same minute).
C3_AtMostOneRecordPerMinute ==
    \A r1, r2 \in Rows(db) :
        (/\ r1.id > Len(InitialRows)
         /\ r2.id > Len(InitialRows)
         /\ MinuteStart(r1.timestamp) = MinuteStart(r2.timestamp)) => r1.id = r2.id

----------------------------------------------------------------------------
(* C4 *)

\* The prefetch routine is invoked, by the tick of second 45 or by the
\* startup timeout.
PrefetchInvoked ==
    \/ TickFires /\ getSeconds(now) = PREFETCH_SECOND
    \/ timeouts' # timeouts /\ timeouts' \subseteq timeouts

\* C4: a prefetch invoked while nextPoem.minute already equals the target
\* minute (now + 1 minute) issues no generation call and leaves nextPoem as
\* it is.
C4_PrefetchIdempotent ==
    [][ (PrefetchInvoked /\ nextPoem.minute = getMinutes(now + MS_PER_MINUTE))
          => /\ calls' = calls
             /\ fetches' = fetches
             /\ step'.fetched = 0
             /\ nextPoem' = nextPoem ]_vars

\* A prefetch was invoked for a minute nextPoem already held, and skipped.
C4_Witness ==
    /\ step.op \in {"tick-prefetch", "timeout-prefetch"}
    /\ step.fetched = 0
    /\ nextPoem.minute = getMinutes(now + MS_PER_MINUTE)
    /\ nextPoem.poem # EmptyString

----------------------------------------------------------------------------
(* C5 *)

\* C5: no two prefetch calls for the same target minute are in flight.
C5_NoOverlappingPrefetches ==
    \A c \in InFlight({"prefetch"}) : CopiesIn(c, calls) = 1

----------------------------------------------------------------------------
(* C6 *)

\* The boundary tick of minute M while a prefetch for M is unresolved.
C6_Pre ==
    /\ TickFires
    /\ getSeconds(now) = 0
    /\ getMinutes(now) # currentPoem.minute
    /\ \E c \in InFlight({"prefetch"}) : c.date = MinuteStart(now)

\* C6: a boundary tick that runs while the prefetch for its minute is still
\* unresolved generates on demand and does not promote nextPoem.
C6_PendingPrefetchFallsBack ==
    [][ C6_Pre => /\ UNCHANGED <<currentPoem, nextPoem>>
                  /\ \E c \in BagToSet(calls') :
                        c.kind = "fallback" /\ calls' = calls (+) SetToBag({c}) ]_vars

----------------------------------------------------------------------------
(* C7 *)

\* C7: once currentPoem.poem is non-empty it stays non-empty.
C7_CurrentStaysNonEmpty ==
    [][ ~notReady(currentPoem) => ~notReady(currentPoem') ]_vars

----------------------------------------------------------------------------
(* C8 *)

\* C8: with the startup generation done and no startup or fallback
\* generation in flight, currentPoem.minute is the wall-clock minute, in the
\* minute the process started and, later, once the tick of second 0 has run.
C8_CurrentMinuteIsWallClockMinute ==
    ( /\ started
      /\ InFlight({"startup", "fallback"}) = {}
      /\ \/ MinuteStart(now) \in { MinuteStart(t) : t \in StartInstants }
         \/ ticked /\ getSeconds(now) = 0 )
    => currentPoem.minute = getMinutes(now)

----------------------------------------------------------------------------
(* C9 *)

\* The cutoff of a prune at this instant.
C9_Cutoff == now - POEM_RETENTION_HOURS * 3600000

\* C9: after a prune the store accepted, no row is older than
\* now - POEM_RETENTION_HOURS * 3600000, and every row at or after that
\* cutoff, the one just appended included, is still there unchanged and in
\* its place.
C9_PruneRemovesExactlyTheOld ==
    [][ (Cleanups(step') # {} /\ storeOk)
          => /\ \A r \in Rows(db') : r.timestamp >= C9_Cutoff
             /\ \A r \in Rows(db) : r.timestamp >= C9_Cutoff => r \in Rows(db')
             /\ \A i \in Cleanups(step') : step'.stmts[i].cutoff = C9_Cutoff
             /\ \A i, j \in 1..Len(db') : i < j => db'[i].id < db'[j].id
             /\ Cardinality({ r \in AddedRows : r.timestamp >= C9_Cutoff }) = 1 ]_vars

\* A prune has just removed the row older than the cutoff and kept the row
\* exactly at it.
C9_Witness ==
    /\ Cleanups(step) # {}
    /\ \A r \in Rows(db) : r.id # 1
    /\ \E r \in Rows(db) : r.id = 2 /\ r.timestamp = now - POEM_RETENTION_HOURS * 3600000

----------------------------------------------------------------------------
(* C10 *)

\* The minute of the boundary transition a step completes.
C10_Minute(st) ==
    IF st.op = "resolve-fallback" THEN getMinutes(st.call.date) ELSE getMinutes(now)

\* C10: a boundary transition (a promotion, or an on-demand generation when
\* it resolves) sends the cleanup with the configured retention window
\* exactly when its minute is 0.
C10_PruneExactlyAtMinuteZero ==
    [][ (C1_Pre \/ step'.op = "resolve-fallback")
          => /\ Cleanups(step') # {} <=> C10_Minute(step') = 0
             /\ Cardinality(Cleanups(step')) <= 1
             /\ \A i \in Cleanups(step') :
                   step'.stmts[i].cutoff = now - POEM_RETENTION_HOURS * 3600000 ]_vars

\* An on-demand generation for minute 0 has resolved and sent the cleanup.
C10_Witness ==
    /\ step.op = "resolve-fallback"
    /\ getMinutes(step.call.date) = 0
    /\ Cleanups(step) # {}

\* A promotion at a minute other than 0 has sent no cleanup.
C10_WitnessOtherMinute ==
    /\ step.op = "tick-promote"
    /\ getMinutes(now) # 0
    /\ Cleanups(step) = {}

----------------------------------------------------------------------------
(* C11 *)

\* sub occurs in s as a run of consecutive characters.
Contains(s, sub) ==
    \E i \in 1..(Len(s) - Len(sub) + 1) : SubSeq(s, i, i + Len(sub) - 1) = sub

\* The fetch failed: network error, non-2xx status, or no content in the body.
IsGenerationFailure(resp) ==
    \/ resp.kind \in {"error", "non2xx", "missing"}
    \/ resp.kind = "content" /\ resp.content = EmptyString

\* The text a resolution step wrote into its slot.
WrittenPoem(st, cp, np) ==
    IF st.op = "resolve-prefetch" THEN np.poem ELSE cp.poem

ResolveOps == {"resolve-startup", "resolve-fallback", "resolve-prefetch"}

\* C11: when the fetch of a generation call fails (network error, non-2xx
\* response, missing content), the call still resolves: the continuation of
\* its caller runs, the call leaves the set of pending calls, and the text it
\* returned, which the caller stores, is non-empty and contains the time
\* label the call was made for.
C11_FailureYieldsFallbackWithLabel ==
    [][ (step'.op \in ResolveOps /\ IsGenerationFailure(step'.resp))
          => /\ WrittenPoem(step', currentPoem', nextPoem') # EmptyString
             /\ Contains(WrittenPoem(step', currentPoem', nextPoem'),
                         formatTime(step'.call.date))
             /\ calls' = calls (-) SetToBag({step'.call})
             /\ BagCardinality(calls') = BagCardinality(calls) - 1 ]_vars

\* A non-2xx answer to the on-demand generation has been absorbed: the slot
\* holds the fallback text for the label of the current minute.
C11_Witness ==
    /\ step.op = "resolve-fallback"
    /\ step.resp.kind = "non2xx"
    /\ currentPoem.poem = FallbackPoem(formatTime(step.call.date))
    /\ Contains(currentPoem.poem, formatTime(now))

----------------------------------------------------------------------------
(* C12 *)

\* The slot value an on-demand generation installs for call c and response resp.
C12_Generated(c, resp) ==
    [timeString |-> formatTime(c.date),
     poem |-> generatePoemFromAPI(formatTime(c.date), resp),
     timestamp |-> c.date,
     minute |-> getMinutes(c.date)]

\* C12: while the store rejects its statements, a boundary transition leaves
\* the slots exactly as a successful one does and the table as it was: a
\* promotion installs nextPoem's poem, label and timestamp and resets
\* nextPoem to empty, a resolved on-demand generation installs the generated
\* poem and leaves nextPoem alone, both still send their statements, and a
\* boundary tick without a valid prefetch still starts its generation.
C12_StoreFailureAbsorbed ==
    [][ /\ (C1_Pre /\ ~storeOk)
            => /\ currentPoem'.poem = nextPoem.poem
               /\ currentPoem'.timeString = nextPoem.timeString
               /\ currentPoem'.timestamp = nextPoem.timestamp
               /\ currentPoem'.minute = getMinutes(now)
               /\ nextPoem'.minute = -1
               /\ nextPoem'.poem = EmptyString
               /\ Inserts(step') # {}
               /\ db' = db
        /\ (step'.op = "resolve-fallback" /\ ~storeOk)
            => /\ currentPoem' = C12_Generated(step'.call, step'.resp)
               /\ nextPoem' = nextPoem
               /\ Inserts(step') # {}
               /\ calls' = calls (-) SetToBag({step'.call})
               /\ db' = db
        /\ (C2_Pre /\ ~storeOk) => C2_Started ]_vars

\* Every write of this run was rejected (the initial poem's insert, then the
\* insert and the cleanup of the top of the hour), and the boundary still
\* promoted the prefetched poem and cleared the prefetch slot.
C12_Witness ==
    /\ step.op = "tick-promote"
    /\ ~storeOk
    /\ InFlight({"startup"}) = {}
    /\ Cleanups(step) # {}
    /\ db = InitialRows
    /\ currentPoem.minute = getMinutes(now)
    /\ currentPoem.poem # EmptyString
    /\ nextPoem.minute = -1

----------------------------------------------------------------------------
(* C13 *)

\* C13: a current-poem request is answered 503 exactly when currentPoem.poem
\* is empty, and otherwise 200 with currentPoem's poem, timeString and
\* timestamp; either way currentPoem, nextPoem and the table (and the pending
\* calls and timers) are left as they were.
C13_CurrentPoemQuery ==
    [][ step'.op = "get-current-poem"
          => /\ step'.reply.status = 503 <=> currentPoem.poem = EmptyString
             /\ step'.reply.status \in {200, 503}
             /\ step'.reply.status = 200
                   => /\ step'.reply.body.poem = currentPoem.poem
                      /\ step'.reply.body.timeString = currentPoem.timeString
                      /\ step'.reply.body.timestamp = currentPoem.timestamp
                      /\ DOMAIN step'.reply.body = {"poem", "timeString", "timestamp"}
             /\ UNCHANGED <<currentPoem, nextPoem, db, seq, calls, timeouts>> ]_vars

\* A request was answered with the poem of the current minute.
C13_Witness ==
    /\ step.op = "get-current-poem"
    /\ step.reply.status = 200
    /\ step.reply.body.poem = currentPoem.poem
    /\ currentPoem.poem # EmptyString
    /\ currentPoem.minute = getMinutes(now)

\* A request was answered 503 while the initial generation was pending.
C13_WitnessNotReady ==
    /\ step.op = "get-current-poem"
    /\ step.reply.status = 503
    /\ InFlight({"startup"}) # {}

----------------------------------------------------------------------------
(* C14 *)

\* C14: while the initial generation has not yet resolved, no tick performs a
\* boundary transition (it neither promotes nextPoem nor starts an on-demand
\* generation), and nothing but the resolution of the initial generation
\* writes currentPoem.
C14_StartupWritesCurrentFirst ==
    [][ InFlight({"startup"}) # {}
          => /\ TickFires => /\ currentPoem' = currentPoem
                             /\ InFlight({"fallback"})' = InFlight({"fallback"})
             /\ currentPoem' # currentPoem => step'.op = "resolve-startup" ]_vars

----------------------------------------------------------------------------
(* C15 *)

\* An on-demand generation for minute M (the top of the hour) is pending.
C15_Stalled == \E c \in BagToSet(calls) : IsStalled(c)

\* The boundary tick of minute M has just started that generation.
C15_StallBegins == step.op = "tick-fallback" /\ MinuteStart(now) = StalledMinute(now)

\* currentPoem holds the poem of minute M + 1: its minute and its label.
C15_HoldsNextMinute ==
    /\ currentPoem.minute = getMinutes(StalledMinute(now) + MS_PER_MINUTE)
    /\ currentPoem.timeString = formatTime(StalledMinute(now) + MS_PER_MINUTE)

\* The run has used up the calls the model follows and a callback that is
\* due needs one more.
C15_OutOfCalls ==
    /\ fetches >= MaxFetches
    /\ \/ /\ ~ticked
          /\ \/ /\ getSeconds(now) = PREFETCH_SECOND
                /\ shouldPrefetch(nextPoem, getMinutes(nextMinuteOf(now)))
             \/ /\ isBoundary(getSeconds(now), getMinutes(now), currentPoem)
                /\ ~hasPrefetched(nextPoem, getMinutes(now))
       \/ /\ \E due \in timeouts : now >= due
          /\ shouldPrefetch(nextPoem, getMinutes(nextMinuteOf(now)))

\* C15: while the on-demand generation for minute M never resolves, the
\* timer keeps acting: a tick at second 45 still starts the prefetch for the
\* next minute (unless nextPoem already holds it), a boundary tick that
\* finds a valid prefetch still promotes it, and from the tick that started
\* the stalled generation currentPoem eventually holds the poem of minute
\* M + 1 (within the calls the model follows).
C15_StalledCallBlocksOnlyItsUpdate ==
    /\ [][ (C15_Stalled /\ TickFires /\ getSeconds(now) = PREFETCH_SECOND
              /\ nextPoem.minute # getMinutes(now + MS_PER_MINUTE))
            => \E c \in BagToSet(calls') :
                  /\ c.kind = "prefetch"
                  /\ getMinutes(c.date) = getMinutes(now + MS_PER_MINUTE)
                  /\ formatTime(c.date) = formatTime(now + MS_PER_MINUTE)
                  /\ calls' = calls (+) SetToBag({c}) ]_vars
    /\ [][ (C15_Stalled /\ C1_Pre)
            => /\ currentPoem'.poem = nextPoem.poem
               /\ currentPoem'.timeString = nextPoem.timeString
               /\ currentPoem'.timestamp = nextPoem.timestamp
               /\ currentPoem'.minute = getMinutes(now) ]_vars
    /\ C15_StallBegins ~> (C15_HoldsNextMinute \/ C15_OutOfCalls)

----------------
(* C16 *)

\* C16: the resolution of a prefetch call writes nextPoem only (currentPoem
\* and the table stay as they are, no statement is sent) and what it writes
\* depends on its own call and response alone; the resolution of a startup
\* or on-demand generation writes currentPoem and the table only (nextPoem
\* stays as it is), again from its own call and response alone.  So two such
\* calls pending together leave the same slots in whichever order they
\* resolve.
C16_ResolutionsWriteDisjointState ==
    [][ /\ step'.op = "resolve-prefetch"
            => /\ UNCHANGED <<currentPoem, db, seq>>
               /\ step'.stmts = <<>>
               /\ nextPoem'.minute = getMinutes(step'.call.date)
               /\ nextPoem'.timestamp = step'.call.date
               /\ nextPoem'.timeString = formatTime(step'.call.date)
               /\ nextPoem'.poem =
                     generatePoemFromAPI(formatTime(step'.call.date), step'.resp)
        /\ step'.op \in {"resolve-startup", "resolve-fallback"}
            => /\ UNCHANGED nextPoem
               /\ currentPoem' = C12_Generated(step'.call, step'.resp) ]_vars

\* A prefetch resolved while an on-demand generation was pending: nextPoem
\* holds its poem and currentPoem is still the poem of the minute before.
C16_Witness ==
    /\ step.op = "resolve-prefetch"
    /\ InFlight({"fallback"}) # {}
    /\ nextPoem.timestamp = step.call.date
    /\ currentPoem.poem # EmptyString
    /\ currentPoem.minute # getMinutes(now)

\* The other order: the on-demand generation resolved while a prefetch was
\* pending, and nextPoem is still empty.
C16_WitnessOtherOrder ==
    /\ step.op = "resolve-fallback"
    /\ InFlight({"prefetch"}) # {}
    /\ nextPoem = EmptyNext
    /\ currentPoem.timestamp = step.call.date

----------------------------------------------------------------------------
(* C17 *)

\* The table has a row with currentPoem's label, text and timestamp.
C17_CurrentIsStored ==
    \E r \in Rows(db) :
        RowHolds(r, currentPoem.timeString, currentPoem.poem, currentPoem.timestamp)

\* C17: every step that writes currentPoem sends, in that same step, exactly
\* one insert with the label, text and timestamp it installed; and whenever
\* currentPoem is non-empty, the store has rejected no statement and the
\* poem is not older than the retention window, the table holds a row with
\* currentPoem's label, text and timestamp.
C17_CurrentPoemIsInStore ==
    /\ [][ currentPoem' # currentPoem
            => /\ Cardinality(Inserts(step')) = 1
               /\ \A i \in Inserts(step') :
                     RowHolds(step'.stmts[i], currentPoem'.timeString,
                              currentPoem'.poem, currentPoem'.timestamp) ]_vars
    /\ []( ( /\ currentPoem.poem # EmptyString
             /\ storeOk
             /\ currentPoem.timestamp >= now - POEM_RETENTION_HOURS * MS_PER_HOUR )
           => C17_CurrentIsStored )

\* The initial poem has just been installed and its row is the newest of
\* the table.
C17_Witness ==
    /\ step.op = "resolve-startup"
    /\ storeOk
    /\ currentPoem.poem # EmptyString
    /\ C17_CurrentIsStored
    /\ \E r \in Rows(db) : r.id = seq /\ r.poem = currentPoem.poem
    /\ Len(db) = Len(InitialRows) + 1

----------------------------------------------------------------------------
(* C18 *)

\* C18: currentPoem.timestamp never decreases: no step replaces the poem of
\* a later instant with the poem of an earlier one.
C18_CurrentTimestampNeverDecreases ==
    [][ currentPoem'.timestamp >= currentPoem.timestamp ]_vars

----------------------------------------------------------------------------
(* C19 *)

\* C19: a tick that promotes nextPoem promotes a poem generated for the
\* minute that is beginning: nextPoem.timestamp, and so the timestamp
\* currentPoem takes, is the start of the current wall-clock minute.
C19_PromotedPoemIsForThisMinute ==
    [][ (TickFires /\ currentPoem' # currentPoem)
          => /\ nextPoem.timestamp = MinuteStart(now)
             /\ currentPoem'.timestamp = MinuteStart(now) ]_vars

====
